---- MODULE Spec2Model ----
(***************************************************************************)
(* Commit-reveal rock-paper-scissors (caiquan.py): Move, Commitment,       *)
(* Reveal, Player, Game.play and NetworkSimulator.run_protocol.            *)
(*                                                                         *)
(* Optional[T] is modelled as a sequence of length at most one:            *)
(* None is << >> and a present value x is <<x>>.                           *)
(***************************************************************************)
EXTENDS Integers, Sequences, FiniteSets, TLC

\* ------------------------------------------------------------------ bounds
\* salts are SALT_LENGTH bytes all equal to one byte in 0..MaxSaltByte
MaxSaltByte == 1
\* calls of Game.play on one Game / of run_protocol on one NetworkSimulator
MaxRounds == 2
\* Commitment objects a free sequence of Player operations may allocate
MaxObjects == 2

\* ------------------------------------------------------- program constants
ROCK == 0
SCISSORS == 1
PAPER == 2
SALT_LENGTH == 16
alice_name == "Alice"
bob_name == "Bob"

None == << >>
Some(x) == <<x>>
IsNone(o) == o = << >>
Val(o) == o[1]

Moves == {ROCK, SCISSORS, PAPER}
Parties == {"alice", "bob"}
Other(p) == IF p = "alice" THEN "bob" ELSE "alice"

\* secrets.token_bytes(SALT_LENGTH): the values the model draws from
Salts == { [i \in 1..SALT_LENGTH |-> b] : b \in 0..MaxSaltByte }

\* ------------------------------------------------------------ Move domain
\* mutant: Paper and Rock swapped in the last pair
winning_combinations_swapped ==
    { <<ROCK, SCISSORS>>, <<SCISSORS, PAPER>>, <<ROCK, PAPER>> }

\* Move.beats: None on equal moves, else membership in winning_combinations
winning_combinations ==
    { <<ROCK, SCISSORS>>, <<SCISSORS, PAPER>>, <<PAPER, ROCK>> }

\* mutant: the pair tested the wrong way round
beats_reversed(self, other) ==
    IF self = other THEN None
    ELSE Some(<<other, self>> \in winning_combinations)

beats(self, other) ==
    IF self = other THEN None
    ELSE Some(<<self, other>> \in winning_combinations)

\* -------------------------------------------------------- Commitment engine
\* struct.pack('B', move.value): one unsigned byte
pack_B(v) == << v % 256 >>

\* mutant: a digest of the first byte only
sha256_first_byte(data) == << (data[1] + 1) % 256 >>

\* hashlib.sha256(data).digest(): a collision-free digest of the same
\* inputs; here the bytes in reverse order, each shifted by its position.
sha256(data) ==
    [i \in 1..Len(data) |-> (data[Len(data) + 1 - i] + i) % 256]

\* mutant: the move byte is left out of the hashed data
hash_salt_only(move, salt) == sha256(salt)

\* Player._hash
hash(move, salt) == sha256(pack_B(move) \o salt)

\* Commitment(hash_value): a new object; id is its identity
Commitment(id, hash_value) == [id |-> id, hash_value |-> hash_value]

\* Reveal(move, salt)
Reveal(move, salt) == [move |-> move, salt |-> salt]

\* Commitment.to_hex: two hexadecimal digits per byte
to_hex(bytes) ==
    [i \in 1..(2 * Len(bytes)) |->
        IF i % 2 = 1 THEN bytes[(i + 1) \div 2] \div 16
                     ELSE bytes[i \div 2] % 16]

\* ---------------------------------------------------------------- Player
\* Player.__init__
NewPlayer(name) ==
    [name |-> name, move |-> None, salt |-> None,
     commitment |-> None, opponent_commitment |-> None]

\* mutant: the assignment of _move is missing
commit_forgets_move(self, move, salt, id) ==
    [self EXCEPT !.salt = Some(salt),
                 !.commitment = Some(Commitment(id, hash(move, salt)))]

\* mutant: the salt is generated and stored but left out of the hash
commit_unsalted(self, move, salt, id) ==
    [self EXCEPT !.move = Some(move),
                 !.salt = Some(salt),
                 !.commitment = Some(Commitment(id, sha256(pack_B(move))))]

\* Player.commit with the salt drawn and the identity of the new object
commit(self, move, salt, id) ==
    [self EXCEPT !.move = Some(move),
                 !.salt = Some(salt),
                 !.commitment = Some(Commitment(id, hash(move, salt)))]

\* mutant: the received commitment is not stored
receive_commitment_dropped(self, commitment) == self

\* Player.receive_commitment
receive_commitment(self, commitment) ==
    [self EXCEPT !.opponent_commitment = Some(commitment)]

\* Player.reveal: raises ValueError when move or salt is None
reveal_raises(self) == IsNone(self.move) \/ IsNone(self.salt)

reveal(self) ==
    IF reveal_raises(self) THEN None
    ELSE Some(Reveal(Val(self.move), Val(self.salt)))

\* mutant: the digest is compared with the commitment's hexadecimal form
verify_against_hex(self, rev, expected_commitment) ==
    hash(rev.move, rev.salt) = to_hex(expected_commitment.hash_value)

\* Player.verify
verify(self, rev, expected_commitment) ==
    hash(rev.move, rev.salt) = expected_commitment.hash_value

\* ------------------------------------------------------------------ state
VARIABLES
    players,    \* the two Player objects of the driver: alice, bob
    pc,         \* position of the driver
    frame,      \* local variables of the running driver call; for direct
                \* calls of Player methods, the player they are called on
    ret,        \* value returned by the last completed Game.play
    site,       \* the return statement that produced ret
    log,        \* Player methods called so far in the current driver call
    round,      \* driver calls started
    returns,    \* return statements executed
    prev,       \* site and ret of the driver call before the current one
    nextId,     \* identity of the next Commitment object
    messages,   \* NetworkSimulator.messages
    last        \* outcome of the last Player method called directly

vars == << players, pc, frame, ret, site, log, round, returns, prev,
           nextId, messages, last >>

\* Game.__init__ / NetworkSimulator.__init__: two fresh players
InitPlayers ==
    [alice |-> NewPlayer(alice_name), bob |-> NewPlayer(bob_name)]

NoCall ==
    [op |-> "none", who |-> "none", args |-> << >>, before |-> None,
     raised |-> FALSE, value |-> None]

InitCommon ==
    /\ players = InitPlayers
    /\ pc = "idle"
    /\ ret = None
    /\ site = "none"
    /\ log = << >>
    /\ round = 0
    /\ returns = 0
    /\ prev = None
    /\ nextId = 1
    /\ messages = << >>
    /\ last = NoCall

\* ---------------------------------------------------------------- Game.play
\* the locals of Game.play, unbound ones None
PlayFrame(am, bm) ==
    [alice_move |-> am, bob_move |-> bm,
     alice_commitment |-> None, bob_commitment |-> None,
     alice_reveal |-> None, alice_valid |-> None,
     bob_reveal |-> None, bob_valid |-> None,
     result |-> None]

Init ==
    /\ InitCommon
    /\ frame = PlayFrame(ROCK, ROCK)

\* a return statement of Game.play
Return(s, value) ==
    /\ pc' = "returned"
    /\ ret' = value
    /\ site' = s
    /\ returns' = returns + 1

\* game.play(alice_move, bob_move) is called
PlayCall(am, bm) ==
    /\ pc \in {"idle", "returned"}
    /\ round < MaxRounds
    /\ round' = round + 1
    /\ frame' = PlayFrame(am, bm)
    /\ log' = << >>
    /\ prev' = IF pc = "returned" THEN Some([site |-> site, ret |-> ret])
                                  ELSE prev
    /\ ret' = None
    /\ site' = "none"
    /\ pc' = "alice_commit"
    /\ UNCHANGED << players, returns, nextId, messages, last >>

\* alice_commitment = self.alice.commit(alice_move)
AliceCommit(salt) ==
    /\ pc = "alice_commit"
    /\ players' = [players EXCEPT
                     !.alice = commit(@, frame.alice_move, salt, nextId)]
    /\ nextId' = nextId + 1
    /\ frame' = [frame EXCEPT !.alice_commitment = players'.alice.commitment]
    /\ log' = Append(log, "alice.commit")
    /\ pc' = "bob_receive"
    /\ UNCHANGED << ret, site, round, returns, prev, messages, last >>

\* self.bob.receive_commitment(alice_commitment)
BobReceive ==
    /\ pc = "bob_receive"
    /\ players' = [players EXCEPT
                     !.bob = receive_commitment(@, Val(frame.alice_commitment))]
    /\ log' = Append(log, "bob.receive_commitment")
    /\ pc' = "bob_commit"
    /\ UNCHANGED << frame, ret, site, round, returns, prev, nextId,
                    messages, last >>

\* bob_commitment = self.bob.commit(bob_move)
BobCommit(salt) ==
    /\ pc = "bob_commit"
    /\ players' = [players EXCEPT
                     !.bob = commit(@, frame.bob_move, salt, nextId)]
    /\ nextId' = nextId + 1
    /\ frame' = [frame EXCEPT !.bob_commitment = players'.bob.commitment]
    /\ log' = Append(log, "bob.commit")
    /\ pc' = "alice_receive"
    /\ UNCHANGED << ret, site, round, returns, prev, messages, last >>

\* mutant: Alice is handed her own commitment
AliceReceive_own ==
    /\ pc = "alice_receive"
    /\ players' = [players EXCEPT
                     !.alice = receive_commitment(@, Val(frame.alice_commitment))]
    /\ log' = Append(log, "alice.receive_commitment")
    /\ pc' = "alice_reveal"
    /\ UNCHANGED << frame, ret, site, round, returns, prev, nextId,
                    messages, last >>

\* self.alice.receive_commitment(bob_commitment)
AliceReceive ==
    /\ pc = "alice_receive"
    /\ players' = [players EXCEPT
                     !.alice = receive_commitment(@, Val(frame.bob_commitment))]
    /\ log' = Append(log, "alice.receive_commitment")
    /\ pc' = "alice_reveal"
    /\ UNCHANGED << frame, ret, site, round, returns, prev, nextId,
                    messages, last >>

\* alice_reveal = self.alice.reveal(); a ValueError leaves play
AliceReveal ==
    /\ pc = "alice_reveal"
    /\ log' = Append(log, "alice.reveal")
    /\ IF reveal_raises(players.alice)
       THEN /\ pc' = "raised"
            /\ UNCHANGED frame
       ELSE /\ pc' = "bob_verify"
            /\ frame' = [frame EXCEPT !.alice_reveal = reveal(players.alice)]
    /\ UNCHANGED << players, ret, site, round, returns, prev, nextId,
                    messages, last >>

\* mutant: alice_valid is computed but not tested
BobVerify_unchecked ==
    /\ pc = "bob_verify"
    /\ log' = Append(log, "bob.verify")
    /\ frame' = [frame EXCEPT !.alice_valid =
                   Some(verify(players.bob, Val(frame.alice_reveal),
                               Val(frame.alice_commitment)))]
    /\ pc' = "bob_reveal"
    /\ UNCHANGED << players, ret, site, round, returns, prev, nextId,
                    messages, last >>

\* alice_valid = self.bob.verify(alice_reveal, alice_commitment)
\* if not alice_valid: return self.bob.name
BobVerify ==
    /\ pc = "bob_verify"
    /\ log' = Append(log, "bob.verify")
    /\ LET ok == verify(players.bob, Val(frame.alice_reveal),
                        Val(frame.alice_commitment))
       IN /\ frame' = [frame EXCEPT !.alice_valid = Some(ok)]
          /\ IF ~ok
             THEN Return("alice_invalid", Some(players.bob.name))
             ELSE /\ pc' = "bob_reveal"
                  /\ UNCHANGED << ret, site, returns >>
    /\ UNCHANGED << players, round, prev, nextId, messages, last >>

\* bob_reveal = self.bob.reveal()
BobReveal ==
    /\ pc = "bob_reveal"
    /\ log' = Append(log, "bob.reveal")
    /\ IF reveal_raises(players.bob)
       THEN /\ pc' = "raised"
            /\ UNCHANGED frame
       ELSE /\ pc' = "alice_verify"
            /\ frame' = [frame EXCEPT !.bob_reveal = reveal(players.bob)]
    /\ UNCHANGED << players, ret, site, round, returns, prev, nextId,
                    messages, last >>

\* mutant: the failed check of Bob's reveal returns Bob as the winner
AliceVerify_returns_bob ==
    /\ pc = "alice_verify"
    /\ log' = Append(log, "alice.verify")
    /\ LET ok == verify(players.alice, Val(frame.bob_reveal),
                        Val(frame.bob_commitment))
       IN /\ frame' = [frame EXCEPT !.bob_valid = Some(ok)]
          /\ IF ~ok
             THEN Return("bob_invalid", Some(players.bob.name))
             ELSE /\ pc' = "judge"
                  /\ UNCHANGED << ret, site, returns >>
    /\ UNCHANGED << players, round, prev, nextId, messages, last >>

\* bob_valid = self.alice.verify(bob_reveal, bob_commitment)
\* if not bob_valid: return self.alice.name
AliceVerify ==
    /\ pc = "alice_verify"
    /\ log' = Append(log, "alice.verify")
    /\ LET ok == verify(players.alice, Val(frame.bob_reveal),
                        Val(frame.bob_commitment))
       IN /\ frame' = [frame EXCEPT !.bob_valid = Some(ok)]
          /\ IF ~ok
             THEN Return("bob_invalid", Some(players.alice.name))
             ELSE /\ pc' = "judge"
                  /\ UNCHANGED << ret, site, returns >>
    /\ UNCHANGED << players, round, prev, nextId, messages, last >>

\* mutant: the draw branch does not return
Judge_draw_hangs ==
    /\ pc = "judge"
    /\ LET result == beats(Val(frame.alice_reveal).move,
                           Val(frame.bob_reveal).move)
       IN /\ frame' = [frame EXCEPT !.result = Some(result)]
          /\ IF IsNone(result) THEN UNCHANGED << pc, ret, site, returns >>
             ELSE IF Val(result)
                  THEN Return("alice_wins", Some(players.alice.name))
                  ELSE Return("bob_wins", Some(players.bob.name))
    /\ UNCHANGED << players, log, round, prev, nextId, messages, last >>

\* result = alice_reveal.move.beats(bob_reveal.move) and the three returns
Judge ==
    /\ pc = "judge"
    /\ LET result == beats(Val(frame.alice_reveal).move,
                           Val(frame.bob_reveal).move)
       IN /\ frame' = [frame EXCEPT !.result = Some(result)]
          /\ IF IsNone(result) THEN Return("draw", None)
             ELSE IF Val(result)
                  THEN Return("alice_wins", Some(players.alice.name))
                  ELSE Return("bob_wins", Some(players.bob.name))
    /\ UNCHANGED << players, log, round, prev, nextId, messages, last >>

PlayStep ==
    \/ \E salt \in Salts : AliceCommit(salt)
    \/ BobReceive
    \/ \E salt \in Salts : BobCommit(salt)
    \/ AliceReceive
    \/ AliceReveal
    \/ BobVerify
    \/ BobReveal
    \/ AliceVerify
    \/ Judge

Next ==
    \/ \E am \in Moves, bm \in Moves : PlayCall(am, bm)
    \/ PlayStep

Spec == Init /\ [][Next]_vars

\* Game.play is straight-line code: once called, it keeps running
FairSpec == Spec /\ WF_vars(PlayStep)

\* ---------------------------------------- Game.play with a faulty exchange
\* The reveal that reaches verify is not the one the commitment was made
\* for ("对手作弊或通信错误": the counterparty cheats or the message is
\* damaged): the Reveal object is replaced before verify reads it.
Reveals == { Reveal(m, r) : m \in Moves, r \in Salts }

TamperAliceReveal(rev) ==
    /\ pc = "bob_verify"
    /\ Some(rev) # frame.alice_reveal
    /\ frame' = [frame EXCEPT !.alice_reveal = Some(rev)]
    /\ UNCHANGED << players, pc, ret, site, log, round, returns, prev,
                    nextId, messages, last >>

TamperBobReveal(rev) ==
    /\ pc = "alice_verify"
    /\ Some(rev) # frame.bob_reveal
    /\ frame' = [frame EXCEPT !.bob_reveal = Some(rev)]
    /\ UNCHANGED << players, pc, ret, site, log, round, returns, prev,
                    nextId, messages, last >>

NextFaulty ==
    \/ Next
    \/ \E rev \in Reveals : TamperAliceReveal(rev)
    \/ \E rev \in Reveals : TamperBobReveal(rev)

SpecFaulty == Init /\ [][NextFaulty]_vars

\* ------------------------------------------- NetworkSimulator.run_protocol
\* the locals of run_protocol, unbound ones None
NetFrame(am, bm) ==
    [alice_move |-> am, bob_move |-> bm,
     c_a |-> None, c_b |-> None,
     reveal_a |-> None, reveal_b |-> None,
     result |-> None]

InitNet ==
    /\ InitCommon
    /\ frame = NetFrame(ROCK, ROCK)

\* NetworkSimulator.log_message: the entry appended to self.messages
Message(sender, receiver, msg_type, content) ==
    [from |-> sender, to |-> receiver, type |-> msg_type,
     content |-> content]

\* f"move={reveal.move.value}, salt={reveal.salt.hex()}"
RevealText(rev) == << rev.move, to_hex(rev.salt) >>

\* sim.run_protocol(alice_move, bob_move), called once on a new simulator
NetCall(am, bm) ==
    /\ pc = "idle"
    /\ round' = round + 1
    /\ frame' = NetFrame(am, bm)
    /\ pc' = "net_alice_commit"
    /\ UNCHANGED << players, ret, site, log, returns, prev, nextId,
                    messages, last >>

\* c_a = self.alice.commit(alice_move); log_message(... c_a.to_hex())
NetAliceCommit(salt) ==
    /\ pc = "net_alice_commit"
    /\ players' = [players EXCEPT
                     !.alice = commit(@, frame.alice_move, salt, nextId)]
    /\ nextId' = nextId + 1
    /\ frame' = [frame EXCEPT !.c_a = players'.alice.commitment]
    /\ messages' = Append(messages,
          Message("Alice", "Bob", "COMMITMENT",
                  to_hex(Val(players'.alice.commitment).hash_value)))
    /\ log' = Append(log, "alice.commit")
    /\ pc' = "net_bob_commit"
    /\ UNCHANGED << ret, site, round, returns, prev, last >>

\* c_b = self.bob.commit(bob_move); log_message(... c_b.to_hex())
NetBobCommit(salt) ==
    /\ pc = "net_bob_commit"
    /\ players' = [players EXCEPT
                     !.bob = commit(@, frame.bob_move, salt, nextId)]
    /\ nextId' = nextId + 1
    /\ frame' = [frame EXCEPT !.c_b = players'.bob.commitment]
    /\ messages' = Append(messages,
          Message("Bob", "Alice", "COMMITMENT",
                  to_hex(Val(players'.bob.commitment).hash_value)))
    /\ log' = Append(log, "bob.commit")
    /\ pc' = "net_alice_reveal"
    /\ UNCHANGED << ret, site, round, returns, prev, last >>

\* reveal_a = self.alice.reveal(); log_message(... REVEAL ...)
NetAliceReveal ==
    /\ pc = "net_alice_reveal"
    /\ log' = Append(log, "alice.reveal")
    /\ IF reveal_raises(players.alice)
       THEN /\ pc' = "raised"
            /\ UNCHANGED << frame, messages >>
       ELSE /\ pc' = "net_bob_verify"
            /\ frame' = [frame EXCEPT !.reveal_a = reveal(players.alice)]
            /\ messages' = Append(messages,
                  Message("Alice", "Bob", "REVEAL",
                          RevealText(Val(reveal(players.alice)))))
    /\ UNCHANGED << players, ret, site, round, returns, prev, nextId, last >>

\* if not self.bob.verify(reveal_a, c_a): return
NetBobVerify ==
    /\ pc = "net_bob_verify"
    /\ log' = Append(log, "bob.verify")
    /\ IF ~verify(players.bob, Val(frame.reveal_a), Val(frame.c_a))
       THEN Return("alice_invalid", None)
       ELSE /\ pc' = "net_bob_reveal"
            /\ UNCHANGED << ret, site, returns >>
    /\ UNCHANGED << players, frame, round, prev, nextId, messages, last >>

\* reveal_b = self.bob.reveal(); log_message(... REVEAL ...)
NetBobReveal ==
    /\ pc = "net_bob_reveal"
    /\ log' = Append(log, "bob.reveal")
    /\ IF reveal_raises(players.bob)
       THEN /\ pc' = "raised"
            /\ UNCHANGED << frame, messages >>
       ELSE /\ pc' = "net_alice_verify"
            /\ frame' = [frame EXCEPT !.reveal_b = reveal(players.bob)]
            /\ messages' = Append(messages,
                  Message("Bob", "Alice", "REVEAL",
                          RevealText(Val(reveal(players.bob)))))
    /\ UNCHANGED << players, ret, site, round, returns, prev, nextId, last >>

\* if not self.alice.verify(reveal_b, c_b): return
NetAliceVerify ==
    /\ pc = "net_alice_verify"
    /\ log' = Append(log, "alice.verify")
    /\ IF ~verify(players.alice, Val(frame.reveal_b), Val(frame.c_b))
       THEN Return("bob_invalid", None)
       ELSE /\ pc' = "net_judge"
            /\ UNCHANGED << ret, site, returns >>
    /\ UNCHANGED << players, frame, round, prev, nextId, messages, last >>

\* result = reveal_a.move.beats(reveal_b.move); the result is only printed
NetJudge ==
    /\ pc = "net_judge"
    /\ LET result == beats(Val(frame.reveal_a).move, Val(frame.reveal_b).move)
       IN /\ frame' = [frame EXCEPT !.result = Some(result)]
          /\ Return(IF IsNone(result) THEN "draw"
                    ELSE IF Val(result) THEN "alice_wins" ELSE "bob_wins",
                    None)
    /\ UNCHANGED << players, log, round, prev, nextId, messages, last >>

NextNet ==
    \/ \E am \in Moves, bm \in Moves : NetCall(am, bm)
    \/ \E salt \in Salts : NetAliceCommit(salt)
    \/ \E salt \in Salts : NetBobCommit(salt)
    \/ NetAliceReveal
    \/ NetBobVerify
    \/ NetBobReveal
    \/ NetAliceVerify
    \/ NetJudge

SpecNet == InitNet /\ [][NextNet]_vars

\* ------------------------------------ Player methods called in any order
\* the record of one call: the method, the receiver, its arguments, the
\* receiver's fields before the call, whether it raised, what it returned
Call(op, who, args, raised, value) ==
    [op |-> op, who |-> who, args |-> args, before |-> players[who],
     raised |-> raised, value |-> value]

\* either of the two players is the one whose methods are called
InitPlayer ==
    /\ InitCommon
    /\ frame \in { [self |-> p] : p \in Parties }

\* players[p].commit(move)
DoCommit(p, move, salt) ==
    /\ nextId <= MaxObjects
    /\ players' = [players EXCEPT ![p] = commit(@, move, salt, nextId)]
    /\ nextId' = nextId + 1
    /\ last' = Call("commit", p, <<move>>, FALSE, players'[p].commitment)
    /\ UNCHANGED << pc, frame, ret, site, log, round, returns, prev,
                    messages >>

\* players[p].receive_commitment(c)
DoReceive(p, c) ==
    /\ players' = [players EXCEPT ![p] = receive_commitment(@, c)]
    /\ last' = Call("receive_commitment", p, <<c>>, FALSE, None)
    /\ UNCHANGED << pc, frame, ret, site, log, round, returns, prev,
                    nextId, messages >>

\* mutant: reveal without the check of _move and _salt
DoReveal_unguarded(p) ==
    /\ last' = Call("reveal", p, << >>, FALSE,
                    Some([move |-> players[p].move, salt |-> players[p].salt]))
    /\ UNCHANGED << players, pc, frame, ret, site, log, round, returns,
                    prev, nextId, messages >>

\* players[p].reveal()
DoReveal(p) ==
    /\ last' = Call("reveal", p, << >>, reveal_raises(players[p]),
                    reveal(players[p]))
    /\ UNCHANGED << players, pc, frame, ret, site, log, round, returns,
                    prev, nextId, messages >>

\* mutant: verify keeps the recomputed digest as the received commitment
DoVerify_overwrites(p, rev, c) ==
    /\ last' = Call("verify", p, <<rev, c>>, FALSE,
                    Some(verify(players[p], rev, c)))
    /\ players' = [players EXCEPT ![p].opponent_commitment =
                     Some(Commitment(c.id, hash(rev.move, rev.salt)))]
    /\ UNCHANGED << pc, frame, ret, site, log, round, returns,
                    prev, nextId, messages >>

\* players[p].verify(rev, c)
DoVerify(p, rev, c) ==
    /\ last' = Call("verify", p, <<rev, c>>, FALSE,
                    Some(verify(players[p], rev, c)))
    /\ UNCHANGED << players, pc, frame, ret, site, log, round, returns,
                    prev, nextId, messages >>

\* what a counterparty q that has committed may send as its reveal: its
\* (move, salt), or that pair with another move or with another salt
SentReveals(q) ==
    { Reveal(m, Val(players[q].salt)) : m \in Moves }
    \cup { Reveal(Val(players[q].move), r) : r \in Salts }

\* The methods of one Player, frame.self, are called in any order with any
\* arguments the counterparty can supply: the counterparty commits, and
\* what it holds as its own commitment is what self receives; verify is
\* given a reveal of the counterparty and the commitment self has received.
NextPlayer ==
    \/ \E p \in Parties, move \in Moves, salt \in Salts :
          DoCommit(p, move, salt)
    \/ /\ ~IsNone(players[Other(frame.self)].commitment)
       /\ DoReceive(frame.self, Val(players[Other(frame.self)].commitment))
    \/ DoReveal(frame.self)
    \/ /\ ~IsNone(players[frame.self].opponent_commitment)
       /\ \E rev \in SentReveals(Other(frame.self)) :
             DoVerify(frame.self, rev,
                      Val(players[frame.self].opponent_commitment))

SpecPlayer == InitPlayer /\ [][NextPlayer]_vars

\* ================================================================= claims
Has(seq, x) == \E i \in 1..Len(seq) : seq[i] = x

CommitPhase ==
    << "alice.commit", "bob.receive_commitment",
       "bob.commit", "alice.receive_commitment" >>

\* both parties hold their own commitment of this call and the other's
BothExchanged ==
    /\ ~IsNone(frame.alice_commitment)
    /\ ~IsNone(frame.bob_commitment)
    /\ players.alice.commitment = frame.alice_commitment
    /\ players.bob.opponent_commitment = frame.alice_commitment
    /\ players.bob.commitment = frame.bob_commitment
    /\ players.alice.opponent_commitment = frame.bob_commitment
    /\ Val(frame.alice_commitment).id # Val(frame.bob_commitment).id

\* C1: in every run of Game.play the four commit-phase calls (Alice.commit,
\* Bob.receive_commitment, Bob.commit, Alice.receive_commitment) come first
\* and in that order, before any reveal(); whenever a reveal is about to
\* run or has run, each party holds its own commitment of this round and
\* the counterparty's.
C1_CommitsBeforeReveal ==
    /\ \A i \in 1..Len(log) :
          /\ (i <= 4 => log[i] = CommitPhase[i])
          /\ (log[i] \in {"alice.reveal", "bob.reveal"} => i > 4)
    /\ (pc \in {"alice_reveal", "bob_reveal"} \/ Has(log, "alice.reveal")
          => /\ Len(log) >= 4
             /\ BothExchanged)

C1_Witness ==
    /\ round = 2
    /\ Has(log, "alice.reveal")
    /\ Has(log, "bob.reveal")
    /\ BothExchanged

\* C2: when the verification of PartyA's reveal returns false the round
\* ends at once with the verdict against PartyA (PartyB is returned) and
\* PartyB's reveal() is never invoked; when the verification of PartyB's
\* reveal returns false the round ends against PartyB without adjudicating.
C2_FailedVerifyShortCircuits ==
    /\ (frame.alice_valid = Some(FALSE)
          => /\ pc = "returned"
             /\ site = "alice_invalid"
             /\ ret = Some(players.bob.name)
             /\ ~Has(log, "bob.reveal")
             /\ log[Len(log)] = "bob.verify"
             /\ IsNone(frame.bob_reveal)
             /\ IsNone(frame.result))
    /\ (frame.bob_valid = Some(FALSE)
          => /\ pc = "returned"
             /\ site = "bob_invalid"
             /\ ret = Some(players.alice.name)
             /\ log[Len(log)] = "alice.verify"
             /\ IsNone(frame.result))

C2_Witness ==
    /\ frame.alice_valid = Some(FALSE)
    /\ pc = "returned"
    /\ ~IsNone(prev)
    /\ Val(prev).site = "bob_invalid"

\* the pairs of verdicts the specification tells apart
ForfeitVersusWin ==
    { {"alice_invalid", "bob_wins"}, {"bob_invalid", "alice_wins"} }

ReturnedFor(s) ==
    CASE s \in {"alice_invalid", "bob_wins"} -> Some(bob_name)
      [] s \in {"bob_invalid", "alice_wins"} -> Some(alice_name)
      [] s = "draw" -> None

InProgress == pc \notin {"idle", "returned"}

\* C4: every call of Game.play terminates with exactly one verdict: a
\* running call eventually returns, the number of returns never exceeds the
\* number of calls and equals it once returned, and after the return no
\* Player method is called until the next call of play.
C4_TerminatesOnce ==
    /\ [](InProgress => <>(pc = "returned" /\ returns = round))
    /\ [](returns = IF InProgress THEN round - 1 ELSE round)
    /\ [][pc = "returned" => (log' = log \/ pc' = "alice_commit")]_vars

C4_Witness ==
    /\ pc = "returned"
    /\ round = 2
    /\ returns = 2

\* outcome(x, y) as the specification lists it
Outcome(x, y) ==
    CASE x = y -> "Draw"
      [] <<x, y>> = <<ROCK, SCISSORS>> -> "Win"
      [] <<x, y>> = <<SCISSORS, PAPER>> -> "Win"
      [] <<x, y>> = <<PAPER, ROCK>> -> "Win"
      [] OTHER -> "Lose"

VerdictOf(o) ==
    CASE o = "Win" -> Some(alice_name)
      [] o = "Lose" -> Some(bob_name)
      [] o = "Draw" -> None

\* C5: with honest reveals, the verdict of Game.play(x, y) is outcome(x, y)
\* mapped to PartyA-wins / PartyB-wins / Draw, for all nine pairs; the
\* relation the code adjudicates with is the cyclic tournament: for x # y
\* exactly one of (x, y), (y, x) wins.
C5_VerdictIsOutcome ==
    /\ (pc = "returned"
          => /\ frame.alice_valid = Some(TRUE)
             /\ frame.bob_valid = Some(TRUE)
             /\ ret = VerdictOf(Outcome(frame.alice_move, frame.bob_move))
             /\ frame.result =
                  Some(beats(frame.alice_move, frame.bob_move)))
    /\ \A x \in Moves, y \in Moves :
          x # y => (beats(x, y) = Some(TRUE)) # (beats(y, x) = Some(TRUE))

C5_Witness ==
    /\ pc = "returned"
    /\ frame.alice_move = SCISSORS
    /\ frame.bob_move = ROCK
    /\ ret = Some(bob_name)
    /\ ~IsNone(prev)
    /\ Val(prev).site = "draw"

\* what Move.beats returned for codes i, j when "i beats j" is (i - j) % 3 = k
BeatsByOffset(i, j, k) ==
    IF i = j THEN None ELSE Some((i - j) % 3 = k)

\* C6 as stated: move i beats move j iff (i - j) mod 3 = 1.
C6_Original ==
    pc = "returned" /\ ~IsNone(frame.result)
      => Val(frame.result) =
           BeatsByOffset(Val(frame.alice_reveal).move,
                         Val(frame.bob_reveal).move, 1)

\* C6 amended: with Rock = 0, Scissors = 1, Paper = 2, move i beats move j
\* iff (i - j) mod 3 = 2; Move.beats returns True exactly then, None exactly
\* when i = j, and False otherwise.
C6_BeatsOffsetTwo ==
    pc = "returned" /\ ~IsNone(frame.result)
      => Val(frame.result) =
           BeatsByOffset(Val(frame.alice_reveal).move,
                         Val(frame.bob_reveal).move, 2)

C6_Witness ==
    /\ pc = "returned"
    /\ Val(frame.alice_reveal).move = ROCK
    /\ Val(frame.bob_reveal).move = SCISSORS
    /\ frame.result = Some(Some(TRUE))

\* C7: reveal() on a party whose own move and salt are absent fails with
\* an error, returns no (move, salt) pair and leaves the party's four
\* fields as they were, whether or not the party has received the
\* counterparty's commitment.
C7_RevealBeforeCommitFails ==
    (last.op = "reveal"
        /\ IsNone(last.before.move) /\ IsNone(last.before.salt))
      => /\ last.raised
         /\ IsNone(last.value)
         /\ players[last.who] = last.before

C7_Witness ==
    /\ last.op = "reveal"
    /\ last.raised
    /\ IsNone(last.before.move)
    /\ ~IsNone(last.before.opponent_commitment)
    /\ players[last.who] = last.before

\* C8 as stated: commit on a party that has already committed is rejected
\* with an error and does not replace the stored move, salt or commitment.
C8_SecondCommitRejected ==
    (last.op = "commit" /\ ~IsNone(last.before.commitment))
      => /\ last.raised
         /\ players[last.who] = last.before

\* C9 as stated: a party that has revealed successfully holds the
\* counterparty's commitment (run_protocol: reveal_a, reveal_b are the
\* reveals returned to the driver).
C9_RevealAfterReceive ==
    /\ (~IsNone(frame.reveal_a)
          => ~IsNone(players.alice.opponent_commitment))
    /\ (~IsNone(frame.reveal_b)
          => ~IsNone(players.bob.opponent_commitment))

\* C10: completeness. verify accepts the reveal (m, r) against the
\* commitment H(encode(m) || r) for every move and salt; the (move, salt) a
\* party's reveal() returns verifies against the commitment its commit()
\* returned, whichever party verifies.
C10_Completeness ==
    /\ \A m \in Moves, r \in Salts, p \in Parties :
          verify(players[p], Reveal(m, r),
                 Commitment(0, sha256(<<m>> \o r)))
    /\ (last.op = "commit"
          => /\ players[last.who].commitment = last.value
             /\ \A p \in Parties :
                   verify(players[p],
                          Reveal(Val(players[last.who].move),
                                 Val(players[last.who].salt)),
                          Val(last.value)))
    /\ (last.op = "reveal" /\ ~last.raised
          => /\ ~IsNone(players[last.who].commitment)
             /\ \A p \in Parties :
                   verify(players[p], Val(last.value),
                          Val(players[last.who].commitment)))

C10_Witness ==
    /\ last.op = "reveal"
    /\ ~last.raised
    /\ Val(last.value).move = PAPER
    /\ Val(players[last.who].commitment).id = 2

\* C11: binding. For all moves m1 # m2 and every salt r, verify rejects the
\* reveal (m2, r) against the commitment generated for (m1, r); a party
\* that committed to m1 does not pass verification by revealing another
\* move with the same salt, whoever verifies and whenever.
C11_Binding ==
    /\ \A m1 \in Moves, m2 \in Moves, r \in Salts, p \in Parties :
          m1 # m2 =>
             ~verify(players[p], Reveal(m2, r),
                     Commitment(0, sha256(<<m1>> \o r)))
    /\ \A q \in Parties, p \in Parties, m2 \in Moves :
          (~IsNone(players[q].commitment) /\ m2 # Val(players[q].move))
             => ~verify(players[p], Reveal(m2, Val(players[q].salt)),
                        Val(players[q].commitment))
    /\ (last.op = "verify"
          /\ last.args[2] = Val(players[Other(last.who)].commitment)
          /\ last.args[1].salt = Val(players[Other(last.who)].salt)
          /\ last.args[1].move # Val(players[Other(last.who)].move))
         => last.value = Some(FALSE)

C11_Witness ==
    /\ last.op = "verify"
    /\ last.args[2] = Val(players[Other(last.who)].commitment)
    /\ last.args[1].salt = Val(players[Other(last.who)].salt)
    /\ last.args[1].move # Val(players[Other(last.who)].move)
    /\ last.value = Some(FALSE)

\* C12: verify is pure and deterministic. A call of Player.verify changes no
\* field of the verifying party and none of the other party, and its result
\* depends on its two arguments only: it is the result any party gives for
\* the same arguments, and a repeated call with the same arguments returns
\* the same boolean.
C12_VerifyPure ==
    [][ (last'.op = "verify"
           => /\ players' = players
              /\ nextId' = nextId
              /\ \A p \in Parties :
                    last'.value =
                      Some(verify(players'[p], last'.args[1], last'.args[2])))
        /\ ((last.op = "verify" /\ last'.op = "verify"
               /\ last'.args = last.args)
              => last'.value = last.value) ]_vars

C12_Witness ==
    /\ last.op = "verify"
    /\ last.value = Some(TRUE)
    /\ last.before = players[last.who]
    /\ Val(players[last.who].opponent_commitment).id = 2

\* C13 as stated: every commit draws a salt that differs from the salt of
\* the earlier commit, so a party that commits again gets a commitment
\* that differs from its prior one.
C13_SaltNeverReused ==
    (last.op = "commit" /\ ~IsNone(last.before.salt))
      => /\ players[last.who].salt # last.before.salt
         /\ Val(players[last.who].commitment).hash_value
              # Val(last.before.commitment).hash_value

\* C13 amended: every commit draws its salt anew from the random source,
\* unconstrained by the salt stored before (an equal draw is not excluded),
\* and builds a new Commitment object; the new digest differs from the
\* prior one exactly when the move or the salt differs.
C13_FreshDrawNewObject ==
    (last.op = "commit" /\ ~IsNone(last.before.commitment))
      => /\ Val(players[last.who].commitment).id
              # Val(last.before.commitment).id
         /\ (Val(players[last.who].commitment).hash_value
               = Val(last.before.commitment).hash_value)
            <=> (/\ players[last.who].move = last.before.move
                 /\ players[last.who].salt = last.before.salt)

C13_Witness ==
    /\ last.op = "commit"
    /\ ~IsNone(last.before.commitment)
    /\ players[last.who].move = last.before.move
    /\ players[last.who].salt # last.before.salt
    /\ Val(players[last.who].commitment).hash_value
         # Val(last.before.commitment).hash_value

\* C14 as stated: a successful reveal() moves the party from Committed to
\* RevealSent, so the party's state after the reveal differs from its state
\* before it and a second reveal() in the same round is not accepted.
C14_RevealChangesState ==
    (last.op = "reveal" /\ ~last.raised)
      => players[last.who] # last.before

\* C15 as stated: the commitment a party holds as received from the
\* counterparty is a copy of the counterparty's own commitment, never the
\* same object.
C15_ReceivedIsCopy ==
    \A p \in Parties :
       (~IsNone(players[p].opponent_commitment)
          /\ ~IsNone(players[Other(p)].commitment))
         => Val(players[p].opponent_commitment).id
              # Val(players[Other(p)].commitment).id

\* the Commitment objects of call number n of Game.play: two per call
OfRound(c, n) == c.id > 2 * (n - 1)

\* C16 as stated: while Game.play runs again on the same Game no party
\* holds a move, salt, own commitment or received commitment of an earlier
\* round, and once a round has returned reveal() gives no (move, salt)
\* until the next commit.
C16_NoStaleState ==
    /\ InProgress =>
         \A p \in Parties :
            /\ (IsNone(players[p].commitment)
                  => IsNone(players[p].move) /\ IsNone(players[p].salt))
            /\ (~IsNone(players[p].commitment)
                  => OfRound(Val(players[p].commitment), round))
            /\ (~IsNone(players[p].opponent_commitment)
                  => OfRound(Val(players[p].opponent_commitment), round))
    /\ pc = "returned" =>
         \A p \in Parties : reveal_raises(players[p])

\* the own triple of a party: all absent, or all present and consistent
TripleAbsent(self) ==
    IsNone(self.move) /\ IsNone(self.salt) /\ IsNone(self.commitment)

TripleConsistent(self) ==
    /\ ~IsNone(self.move) /\ ~IsNone(self.salt) /\ ~IsNone(self.commitment)
    /\ Val(self.commitment).hash_value
         = sha256(<<Val(self.move)>> \o Val(self.salt))

\* C17: after any sequence of commit, receive_commitment, reveal and verify
\* calls a party's own move, salt and commitment are all absent or all
\* present, and when present the commitment is H(encode(move) || salt) of
\* the stored move and salt.
C17_OwnTriple ==
    \A p \in Parties :
       TripleAbsent(players[p]) \/ TripleConsistent(players[p])

C17_Witness ==
    /\ last.op = "verify"
    /\ TripleConsistent(players[last.who])
    /\ Val(players[last.who].commitment).id = 2
    /\ ~IsNone(players[last.who].opponent_commitment)

\* the result as a function of the two move codes alone
ResultOfMoves(am, bm) ==
    CASE (am - bm) % 3 = 0 -> None
      [] (am - bm) % 3 = 2 -> Some(alice_name)
      [] (am - bm) % 3 = 1 -> Some(bob_name)

\* C18: in Game.play both parties are honest Player objects: each
\* verification that has run has succeeded, no call ends in a forfeiture
\* return or in an error, and the value returned is a function of the two
\* moves alone, whatever salts were drawn.
C18_HonestNeverForfeits ==
    /\ frame.alice_valid \in {None, Some(TRUE)}
    /\ frame.bob_valid \in {None, Some(TRUE)}
    /\ site \notin {"alice_invalid", "bob_invalid"}
    /\ pc # "raised"
    /\ (~IsNone(prev)
          => Val(prev).site \notin {"alice_invalid", "bob_invalid"})
    /\ (pc = "returned"
          => /\ site \in {"draw", "alice_wins", "bob_wins"}
             /\ ret = ResultOfMoves(frame.alice_move, frame.bob_move))

C18_Witness ==
    /\ pc = "returned"
    /\ round = 2
    /\ frame.alice_valid = Some(TRUE)
    /\ frame.bob_valid = Some(TRUE)
    /\ players.alice.salt # players.bob.salt
    /\ site = "alice_wins"

\* C19: in Game.play, whenever a party's verify is about to run or has run,
\* the expected commitment handed to it is the one the verifying party
\* holds as received from the counterparty, which is the revealing party's
\* own stored commitment of this round.
C19_VerifyAgainstExchanged ==
    /\ (pc = "bob_verify" \/ ~IsNone(frame.alice_valid))
         => /\ ~IsNone(frame.alice_commitment)
            /\ frame.alice_commitment = players.bob.opponent_commitment
            /\ frame.alice_commitment = players.alice.commitment
            /\ OfRound(Val(frame.alice_commitment), round)
    /\ (pc = "alice_verify" \/ ~IsNone(frame.bob_valid))
         => /\ ~IsNone(frame.bob_commitment)
            /\ frame.bob_commitment = players.alice.opponent_commitment
            /\ frame.bob_commitment = players.bob.commitment
            /\ OfRound(Val(frame.bob_commitment), round)

C19_Witness ==
    /\ pc = "judge"
    /\ round = 2
    /\ frame.bob_commitment = players.alice.opponent_commitment
    /\ frame.alice_commitment = players.bob.opponent_commitment

====
